---- MODULE Spec2Model ----
(***************************************************************************)
(* Model of dvc/stage/run.py (run_stage, cmd_run, _run, the checkpoint     *)
(* monitor) and of dvc/command/list.py (CmdList.run).                      *)
(*                                                                         *)
(* The foreground thread, the checkpoint monitor thread and the child      *)
(* process of each command are three interleaved processes; the marker     *)
(* file, the repository lock, the SIGINT disposition and the two events    *)
(* killed / done are the state they share.                                 *)
(*                                                                         *)
(* The child is the environment: it may create the marker file and exit    *)
(* with any code at any time; with childWaits it follows the convention of *)
(* waiting, after each creation, until the marker has been removed.  The   *)
(* POSIX branch of _kill is modelled (terminate, then wait).  Counters of  *)
(* what one run attempt did (created, cbCalls, cbRaised, markerStart,      *)
(* kind) start again with each command of the stage.                       *)
(***************************************************************************)
EXTENDS Integers, Sequences, FiniteSets, TLC

\* ---------------------------------------------------------------- bounds
\* longest command list of a stage
MaxCmds == 2
\* most marker files one child creates
MaxMarkers == 2

\* exit codes a child may exit with on its own
ExitCodes == {0, 3}
\* Popen.returncode of a child ended by SIGTERM
SIGTERM_CODE == -15
\* Popen.returncode before the child has been waited for; retcode of no child
None == 99

\* signal dispositions; NoHandler is the value of old_handler = None
Handlers == {"SIG_DFL", "SIG_IGN", "custom"}
NoHandler == "None"

\* what stage_cache.restore may do
RestoreResults == {"hit", "RunCacheNotFoundError", "OtherError"}

\* the declared command list of a stage with n commands: command strings are
\* numbered so that a string differs from its position in the list
StageCmd(n) == [k \in 1..n |-> n + 1 - k]

\* _enforce_cmd_list: a single command string becomes a one-element list
IsList(cmd) == cmd.list
enforce_cmd_list(cmd) == IF IsList(cmd) THEN cmd.items ELSE <<cmd.items[1]>>

\* stage.cmd: one command string, or a non-empty list of them (the assert)
StageCmds ==
    {[list |-> FALSE, items |-> StageCmd(1)]}
    \cup {[list |-> TRUE, items |-> StageCmd(n)] : n \in 1..MaxCmds}

VARIABLES
    \* arguments of run_stage, and the context it is called in
    dry, force, checkpoint_func, main_thread, stage_cmd, childWaits, sigint0,
    \* foreground thread
    pc, idx, exc, outcome, errCmd, errCode, old_handler, p,
    \* process-wide state
    sigint, lock, marker,
    \* child processes, one per command position
    proc,
    \* monitor thread of the current _run
    mpc, killed, done,
    \* what has been observed so far
    restoreResult, restoreCalls, displayed, spawned, launches, monitors,
    created, attempts, cbCalls, cbRaised, markerStart, kind,
    \* the list command: the command line, the parsed arguments, CmdList.run
    cli, argv, args, lpc, list_calls, list_result, ret,
    \* experiments apply: its arguments, the repository, its position
    rev, apply_force, is_dirty, stash0, stash, workspace, tree, exec_apply,
    packed_args, apos, apply_exc

inputs == <<dry, force, checkpoint_func, main_thread, stage_cmd, childWaits, sigint0>>
fg == <<pc, idx, exc, outcome, errCmd, errCode, old_handler, p>>
shared == <<sigint, lock, marker>>
mon == <<mpc, killed, done>>
hist == <<restoreResult, restoreCalls, displayed, spawned, launches, monitors,
          created, attempts, cbCalls, cbRaised, markerStart, kind>>
lst == <<cli, argv, args, lpc, list_calls, list_result, ret>>
app == <<rev, apply_force, is_dirty, stash0, stash, workspace, tree, exec_apply,
         packed_args, apos, apply_exc>>
vars == <<inputs, fg, shared, proc, mon, hist, lst, app>>

commands == enforce_cmd_list(stage_cmd)

NoProc == [state |-> "none", code |-> None, returncode |-> None]

\* ------------------------------------------------------------ decorators
\* dvc/stage/decorators.py: unlocked_repo releases the repository lock around
\* the wrapped call and takes it again in its finally; relock_repo takes the
\* lock around the wrapped call and releases it in its finally.
unlocked_enter(l) == "none"
unlocked_exit(l) == "caller"
relock_enter(l) == "monitor"
relock_exit(l) == "none"

\* -------------------------------------------------------------- run_stage
\* a run_stage that forgets the checkpoint callback in its condition
ShouldRestore_IgnoresCheckpoint(d, f, c) == ~(d \/ f)

\* run_stage: `if not (dry or force or checkpoint_func)`
ShouldRestore(d, f, c) == ~(d \/ f \/ c)

\* a run_stage with a bare `except:` around the restore
Swallowed_Any(e) == TRUE

\* run_stage: `except RunCacheNotFoundError: pass`
Swallowed(e) == e = "RunCacheNotFoundError"

\* a run_stage that calls cmd_run without unlocked_repo
UseUnlocked_Never(d) == FALSE

\* run_stage: `run = cmd_run if dry else unlocked_repo(cmd_run)`
UseUnlocked(d) == ~d

\* a cmd_run without the dry check
SkipRun_Never(d) == FALSE

\* cmd_run: `if dry: continue`
SkipRun(d) == d

\* _run: `if old_handler:` -- None and SIG_DFL (the integer 0) are falsy
Truthy(h) == h \notin {NoHandler, "SIG_DFL"}

\* a _run that takes only a death by signal for a failure (`retcode < 0`)
CmdFailed_OnlySignals(rc) == rc < 0

\* _run: `if retcode != 0`
CmdFailed(rc) == rc # 0

\* _run: which error a failed command raises
ErrorKind(k) == IF k THEN "CheckpointKilledError" ELSE "StageCmdFailedError"

\* the list command is not running
ListIdle ==
    /\ cli = [url |-> "repo_url", targets |-> <<>>, rev |-> "absent", recursive |-> FALSE]
    /\ argv = <<>>
    /\ args = [url |-> "", targets |-> <<>>, rev |-> "None", recursive |-> FALSE]
    /\ lpc = "off"
    /\ list_calls = <<>>
    /\ list_result = "none"
    /\ ret = None

\* no experiment is being applied
ApplyIdle ==
    /\ rev = "exp_branch"
    /\ apply_force = FALSE
    /\ is_dirty = FALSE
    /\ stash0 = <<>>
    /\ stash = <<>>
    /\ workspace = "None"
    /\ tree = "clean"
    /\ exec_apply = "unset"
    /\ packed_args = FALSE
    /\ apos = "off"
    /\ apply_exc = "none"

Init ==
    /\ ListIdle
    /\ ApplyIdle
    /\ dry \in BOOLEAN
    /\ force \in BOOLEAN
    /\ checkpoint_func \in BOOLEAN
    /\ main_thread \in BOOLEAN
    /\ stage_cmd \in StageCmds
    /\ childWaits \in BOOLEAN
    /\ sigint0 \in Handlers
    /\ pc = "run_stage"
    /\ idx = 0
    /\ exc = "none"
    /\ outcome = "none"
    /\ errCmd = 0
    /\ errCode = None
    /\ old_handler = NoHandler
    /\ p = 0
    /\ sigint = sigint0
    /\ lock = "caller"
    /\ marker \in BOOLEAN
    /\ proc = [k \in 1..MaxCmds |-> NoProc]
    /\ mpc = "none"
    /\ killed = FALSE
    /\ done = FALSE
    /\ restoreResult = "none"
    /\ restoreCalls = 0
    /\ displayed = <<>>
    /\ spawned = <<>>
    /\ launches = 0
    /\ monitors = 0
    /\ created = 0
    /\ attempts = 0
    /\ cbCalls = 0
    /\ cbRaised = FALSE
    /\ markerStart = FALSE
    /\ kind = "none"

\* a run_stage without the `return` after a successful restore
Restore_HitFallsThrough ==
    /\ pc = "run_stage"
    /\ ShouldRestore(dry, force, checkpoint_func)
    /\ \E r \in RestoreResults :
        /\ restoreResult' = r
        /\ restoreCalls' = restoreCalls + 1
        /\ IF r = "hit" \/ Swallowed(r)
             THEN pc' = "cmd_run" /\ outcome' = outcome
             ELSE pc' = "done" /\ outcome' = r
    /\ UNCHANGED <<app, lst, inputs, idx, exc, errCmd, errCode, old_handler, p,
                   shared, proc, mon, displayed, spawned, launches, monitors,
                   created, cbCalls, cbRaised, markerStart, kind, attempts>>

\* run_stage, lines 135-142: the run cache is consulted
Restore ==
    /\ pc = "run_stage"
    /\ ShouldRestore(dry, force, checkpoint_func)
    /\ \E r \in RestoreResults :
        /\ restoreResult' = r
        /\ restoreCalls' = restoreCalls + 1
        /\ IF r = "hit"
             THEN pc' = "done" /\ outcome' = "Success"
             ELSE IF Swallowed(r)
                    THEN pc' = "cmd_run" /\ outcome' = outcome
                    ELSE pc' = "done" /\ outcome' = r
    /\ UNCHANGED <<app, lst, inputs, idx, exc, errCmd, errCode, old_handler, p,
                   shared, proc, mon, displayed, spawned, launches, monitors,
                   created, cbCalls, cbRaised, markerStart, kind, attempts>>

\* run_stage, line 135 false: no cache lookup
SkipRestore ==
    /\ pc = "run_stage"
    /\ ~ShouldRestore(dry, force, checkpoint_func)
    /\ pc' = "cmd_run"
    /\ UNCHANGED <<app, lst, inputs, idx, exc, outcome, errCmd, errCode, old_handler, p,
                   shared, proc, mon, hist>>

\* run_stage, lines 144-145, and cmd_run up to its loop
EnterCmdRun ==
    /\ pc = "cmd_run"
    /\ lock' = IF UseUnlocked(dry) THEN unlocked_enter(lock) ELSE lock
    /\ idx' = 1
    /\ pc' = "display"
    /\ UNCHANGED <<app, lst, inputs, exc, outcome, errCmd, errCode, old_handler, p,
                   sigint, marker, proc, mon, hist>>

\* cmd_run, lines 126-129: display_command, and `continue` in a dry run
DisplayCommand ==
    /\ pc = "display"
    /\ displayed' = Append(displayed, commands[idx])
    /\ IF SkipRun(dry)
         THEN IF idx < Len(commands)
                THEN idx' = idx + 1 /\ pc' = "display"
                ELSE idx' = idx /\ pc' = "leave"
         ELSE idx' = idx /\ pc' = "popen"
    /\ UNCHANGED <<app, lst, inputs, exc, outcome, errCmd, errCode, old_handler,
                   p, shared, proc, mon, restoreResult, restoreCalls,
                   spawned, launches, monitors, created, cbCalls, cbRaised,
                   markerStart, kind, attempts>>

\* _run, lines 91-95: the child is launched
Popen ==
    /\ pc = "popen"
    /\ launches' = launches + 1
    /\ old_handler' = NoHandler
    /\ markerStart' = marker
    /\ \/ /\ proc' = [proc EXCEPT ![idx].state = "running"]
          /\ p' = idx
          /\ spawned' = Append(spawned, commands[idx])
          /\ pc' = "signal"
          /\ exc' = exc
       \/ /\ exc' = "LaunchError"
          /\ p' = 0
          /\ pc' = "finally"
          /\ UNCHANGED <<proc, spawned>>
    /\ UNCHANGED <<app, lst, inputs, idx, outcome, errCmd, errCode, shared, mon,
                   restoreResult, restoreCalls, displayed, monitors, created,
                   cbCalls, cbRaised, kind, attempts>>

\* a _run without the main_thread test
IgnoreSigint_AnyThread ==
    /\ pc = "signal"
    /\ old_handler' = sigint
    /\ sigint' = "SIG_IGN"
    /\ pc' = "monitor"
    /\ UNCHANGED <<app, lst, inputs, idx, exc, outcome, errCmd, errCode, p, lock, marker,
                   proc, mon, hist>>

\* _run, lines 96-97: SIGINT is ignored in the main thread
IgnoreSigint ==
    /\ pc = "signal"
    /\ IF main_thread
         THEN old_handler' = sigint /\ sigint' = "SIG_IGN"
         ELSE UNCHANGED <<old_handler, sigint>>
    /\ pc' = "monitor"
    /\ UNCHANGED <<app, lst, inputs, idx, exc, outcome, errCmd, errCode, p, lock, marker,
                   proc, mon, hist>>

\* a checkpoint_monitor without its `if not callback_func` test
StartMonitor_Always ==
    /\ pc = "monitor"
    /\ killed' = FALSE
    /\ done' = FALSE
    /\ mpc' = "check"
    /\ monitors' = monitors + 1
    /\ pc' = "communicate"
    /\ UNCHANGED <<app, lst, inputs, idx, exc, outcome, errCmd, errCode, old_handler, p,
                   shared, proc, restoreResult, restoreCalls, displayed,
                   spawned, launches, created, attempts, cbCalls, cbRaised,
                   markerStart, kind>>

\* _run, lines 99-100, checkpoint_monitor lines 154-170
StartMonitor ==
    /\ pc = "monitor"
    /\ killed' = FALSE
    /\ IF checkpoint_func
         THEN done' = FALSE /\ mpc' = "check" /\ monitors' = monitors + 1
         ELSE UNCHANGED <<done, mpc, monitors>>
    /\ pc' = "communicate"
    /\ UNCHANGED <<app, lst, inputs, idx, exc, outcome, errCmd, errCode,
                   old_handler, p, shared, proc, restoreResult, restoreCalls,
                   displayed, spawned, launches, created, cbCalls, cbRaised,
                   markerStart, kind, attempts>>

\* _run, line 101: p.communicate() returns once the child has exited
Communicate ==
    /\ pc = "communicate"
    /\ proc[p].state = "exited"
    /\ proc' = [proc EXCEPT ![p].returncode = proc[p].code]
    /\ pc' = "stop"
    /\ UNCHANGED <<app, lst, inputs, idx, exc, outcome, errCmd, errCode, old_handler, p,
                   shared, mon, hist>>

\* _run, line 101: p.communicate() raises
CommunicateRaises ==
    /\ pc = "communicate"
    /\ exc' = "WaitError"
    /\ pc' = "stop"
    /\ UNCHANGED <<app, lst, inputs, idx, outcome, errCmd, errCode, old_handler, p,
                   shared, proc, mon, hist>>

\* checkpoint_monitor, lines 154-156 and 172-173: done.set()
StopMonitor ==
    /\ pc = "stop"
    /\ IF checkpoint_func
         THEN done' = TRUE /\ pc' = "join"
         ELSE done' = done /\ pc' = "finally"
    /\ UNCHANGED <<app, lst, inputs, idx, exc, outcome, errCmd, errCode, old_handler, p,
                   shared, proc, mpc, killed, hist>>

\* a checkpoint_monitor that sets done and does not join
Join_NoWait ==
    /\ pc = "join"
    /\ pc' = "finally"
    /\ UNCHANGED <<app, lst, inputs, idx, exc, outcome, errCmd, errCode, old_handler, p,
                   shared, proc, mon, hist>>

\* checkpoint_monitor, line 174: monitor_thread.join()
Join ==
    /\ pc = "join"
    /\ mpc \in {"returned", "dead"}
    /\ pc' = "finally"
    /\ UNCHANGED <<app, lst, inputs, idx, exc, outcome, errCmd, errCode, old_handler, p,
                   shared, proc, mon, hist>>

\* _run, lines 102-104: the finally clause
Finally ==
    /\ pc = "finally"
    /\ sigint' = IF Truthy(old_handler) THEN old_handler ELSE sigint
    /\ IF exc # "none"
         THEN pc' = "leave" /\ outcome' = exc
         ELSE pc' = "evaluate" /\ outcome' = outcome
    /\ UNCHANGED <<app, lst, inputs, idx, exc, errCmd, errCode, old_handler, p, lock,
                   marker, proc, mon, hist>>

\* _run, lines 106-110: the outcome of the run attempt
Evaluate ==
    /\ pc = "evaluate"
    /\ LET retcode == IF p = 0 THEN None ELSE proc[p].returncode
       IN IF CmdFailed(retcode)
            THEN /\ kind' = ErrorKind(killed)
                 /\ exc' = kind'
                 /\ outcome' = kind'
                 /\ errCmd' = commands[idx]
                 /\ errCode' = retcode
                 /\ pc' = "leave"
            ELSE /\ kind' = "Success"
                 /\ pc' = "next"
                 /\ UNCHANGED <<exc, outcome, errCmd, errCode>>
    /\ UNCHANGED <<app, lst, inputs, idx, old_handler, p, shared, proc, mon,
                   restoreResult, restoreCalls, displayed, spawned, launches,
                   monitors, created, cbCalls, cbRaised, markerStart,
                   attempts>>

\* cmd_run, line 126: the loop goes on to the next command, if any; the
\* killed event of the finished _run is dropped with its other locals, and
\* what was observed of the finished attempt is kept only after the last one
NextCommand ==
    /\ pc = "next"
    /\ IF idx < Len(commands)
         THEN /\ idx' = idx + 1
              /\ pc' = "display"
              /\ killed' = FALSE
              /\ created' = 0
              /\ attempts' = 0
              /\ cbCalls' = 0
              /\ cbRaised' = FALSE
              /\ markerStart' = FALSE
              /\ kind' = "none"
         ELSE /\ pc' = "leave"
              /\ UNCHANGED <<idx, killed, created, attempts, cbCalls, cbRaised,
                             markerStart, kind>>
    /\ UNCHANGED <<app, lst, inputs, exc, outcome, errCmd, errCode, old_handler, p,
                   shared, proc, mpc, done, restoreResult, restoreCalls,
                   displayed, spawned, launches, monitors>>

\* run_stage, line 145: cmd_run returns or raises, through unlocked_repo
LeaveCmdRun ==
    /\ pc = "leave"
    /\ lock' = IF UseUnlocked(dry) THEN unlocked_exit(lock) ELSE lock
    /\ outcome' = IF exc = "none" THEN "Success" ELSE outcome
    /\ pc' = "done"
    /\ UNCHANGED <<app, lst, inputs, idx, exc, errCmd, errCode, old_handler, p, sigint,
                   marker, proc, mon, hist>>

\* ------------------------------------------------------------ the child
\* the child may act unless, under the make_checkpoint convention, it is
\* waiting for the marker it created to be removed
ChildFree(k) ==
    /\ proc[k].state = "running"
    /\ ~(childWaits /\ created > 0 /\ marker)

\* the child creates the marker file
ChildCreatesMarker ==
    \E k \in 1..MaxCmds :
        /\ ChildFree(k)
        /\ created < MaxMarkers
        /\ marker' = TRUE
        /\ created' = created + 1
        /\ UNCHANGED <<app, lst, inputs, fg, sigint, lock, proc, mon, restoreResult,
                   restoreCalls, displayed, spawned, launches, monitors,
                   cbCalls, cbRaised, markerStart, kind, attempts>>

\* the child exits on its own
ChildExits ==
    \E k \in 1..MaxCmds, c \in ExitCodes :
        /\ ChildFree(k)
        /\ proc' = [proc EXCEPT ![k].state = "exited", ![k].code = c]
        /\ UNCHANGED <<app, lst, inputs, fg, shared, mon, hist>>

\* ---------------------------------------------------------- the monitor
\* a _checkpoint_run that runs the callback on every tick
MonCheck_Always ==
    /\ mpc = "check"
    /\ mpc' = "lock"
    /\ UNCHANGED <<app, lst, inputs, fg, shared, proc, killed, done, hist>>

\* _checkpoint_run, line 181: os.path.exists(signal_path)
MonCheck ==
    /\ mpc = "check"
    /\ mpc' = IF marker THEN "lock" ELSE "wait"
    /\ UNCHANGED <<app, lst, inputs, fg, shared, proc, killed, done, hist>>

\* _checkpoint_run, line 183: _run_callback is called; relock_repo takes
\* the lock, or fails to
MonLock ==
    /\ mpc = "lock"
    /\ attempts' = attempts + 1
    /\ \/ /\ lock' = relock_enter(lock)
          /\ mpc' = "callback"
          /\ UNCHANGED cbRaised
       \/ /\ cbRaised' = TRUE
          /\ mpc' = "kill"
          /\ UNCHANGED lock
    /\ UNCHANGED <<app, lst, inputs, fg, sigint, marker, proc, killed, done,
                   restoreResult, restoreCalls, displayed, spawned, launches,
                   monitors, created, cbCalls, markerStart, kind>>

\* a _checkpoint_run whose kill is in a `finally:` instead of an `except:`
MonCallback_KillsOnSuccess ==
    /\ mpc = "callback"
    /\ lock' = relock_exit(lock)
    /\ mpc' = "kill"
    /\ \/ /\ cbCalls' = cbCalls + 1
          /\ UNCHANGED cbRaised
       \/ /\ cbCalls' \in {cbCalls, cbCalls + 1}
          /\ cbRaised' = TRUE
    /\ UNCHANGED <<app, lst, inputs, fg, sigint, marker, proc, killed, done,
                   restoreResult, restoreCalls, displayed, spawned, launches,
                   monitors, created, markerStart, kind, attempts>>

\* _run_callback, lines 212-215: save, commit, callback_func(); the lock is
\* released when the body returns or raises
MonCallback ==
    /\ mpc = "callback"
    /\ lock' = relock_exit(lock)
    /\ \/ /\ cbCalls' = cbCalls + 1
          /\ mpc' = "remove"
          /\ UNCHANGED cbRaised
       \/ /\ cbCalls' \in {cbCalls, cbCalls + 1}
          /\ cbRaised' = TRUE
          /\ mpc' = "kill"
    /\ UNCHANGED <<app, lst, inputs, fg, sigint, marker, proc, killed, done,
                   restoreResult, restoreCalls, displayed, spawned, launches,
                   monitors, created, markerStart, kind, attempts>>

\* _kill, lines 200-201: proc.terminate(), proc.wait()
Terminated(pr) ==
    IF pr.state = "running"
      THEN [pr EXCEPT !.state = "exited", !.code = SIGTERM_CODE,
                      !.returncode = SIGTERM_CODE]
      ELSE [pr EXCEPT !.returncode = pr.code]

\* _checkpoint_run, line 188: _kill in the except clause.  proc.terminate()
\* may raise when the child has exited on its own (ProcessLookupError, when
\* the foreground's wait reaps the child between terminate's look at
\* returncode and its os.kill); the exception leaves the except clause through
\* the finally clause.
MonKill ==
    /\ mpc = "kill"
    /\ \/ /\ proc' = [proc EXCEPT ![p] = Terminated(proc[p])]
          /\ mpc' = "set_killed"
       \/ /\ proc[p].state = "exited"
          /\ proc' = proc
          /\ mpc' = "unwind"
    /\ UNCHANGED <<app, lst, inputs, fg, shared, killed, done, hist>>

\* _checkpoint_run, line 189
MonSetKilled ==
    /\ mpc = "set_killed"
    /\ killed' = TRUE
    /\ mpc' = "remove"
    /\ UNCHANGED <<app, lst, inputs, fg, shared, proc, done, hist>>

\* a _checkpoint_run without the os.remove
MonRemove_Skips ==
    /\ mpc \in {"remove", "unwind"}
    /\ marker' = marker
    /\ mpc' = IF mpc = "remove" THEN "wait" ELSE "dead"
    /\ UNCHANGED <<app, lst, inputs, fg, sigint, lock, proc, killed, done, hist>>

\* _checkpoint_run, lines 190-192: os.remove(signal_path) raises when the
\* file is gone; that exception, or the one the finally clause was entered
\* with ("unwind"), ends the thread
MonRemove ==
    /\ mpc \in {"remove", "unwind"}
    /\ IF marker
         THEN marker' = FALSE /\ mpc' = IF mpc = "remove" THEN "wait" ELSE "dead"
         ELSE marker' = marker /\ mpc' = "dead"
    /\ UNCHANGED <<app, lst, inputs, fg, sigint, lock, proc, killed, done, hist>>

\* a _checkpoint_run that sleeps instead of waiting on done
MonWait_IgnoresDone ==
    /\ mpc = "wait"
    /\ mpc' = "check"
    /\ UNCHANGED <<app, lst, inputs, fg, shared, proc, killed, done, hist>>

\* _checkpoint_run, lines 193-194: done.wait(1)
MonWait ==
    /\ mpc = "wait"
    /\ mpc' = IF done THEN "returned" ELSE "check"
    /\ UNCHANGED <<app, lst, inputs, fg, shared, proc, killed, done, hist>>

Next ==
    \/ Restore
    \/ SkipRestore
    \/ EnterCmdRun
    \/ DisplayCommand
    \/ Popen
    \/ IgnoreSigint
    \/ StartMonitor
    \/ Communicate
    \/ CommunicateRaises
    \/ StopMonitor
    \/ Join
    \/ Finally
    \/ Evaluate
    \/ NextCommand
    \/ LeaveCmdRun
    \/ ChildCreatesMarker
    \/ ChildExits
    \/ MonCheck
    \/ MonLock
    \/ MonCallback
    \/ MonKill
    \/ MonSetKilled
    \/ MonRemove
    \/ MonWait

Spec == Init /\ [][Next]_vars

\* ------------------------------------------------------- the list command
\* most targets on a command line
MaxTargets == 2

Urls == {"repo_url", "/path/to/repo"}
Targets == {"data", "model"}
Revs == {"master", "v1"}
TargetLists == UNION {[1..n -> Targets] : n \in 0..MaxTargets}

\* a command line `dvc list [-R] [--rev REV] url [targets ...]`
MakeArgv(c) ==
    (IF c.recursive THEN <<"-R">> ELSE <<>>)
    \o (IF c.rev # "absent" THEN <<"--rev", c.rev>> ELSE <<>>)
    \o <<c.url>> \o c.targets

CommandLines ==
    [url : Urls, targets : TargetLists, rev : Revs \cup {"absent"},
     recursive : BOOLEAN]

IsOption(tok) == tok \in {"-R", "--recursive", "--rev"}

\* add_parser: what argparse stores before it reads the command line
ParserDefaults == [recursive |-> FALSE, rev |-> "None", pos |-> <<>>]

\* add_parser: -R/--recursive is store_true, --rev takes at most one value,
\* everything else is positional
RECURSIVE Scan(_, _)
Scan(toks, acc) ==
    IF toks = <<>> THEN acc
    ELSE IF Head(toks) \in {"-R", "--recursive"}
      THEN Scan(Tail(toks), [acc EXCEPT !.recursive = TRUE])
    ELSE IF Head(toks) = "--rev"
      THEN IF Len(toks) > 1 /\ ~IsOption(toks[2])
             THEN Scan(Tail(Tail(toks)), [acc EXCEPT !.rev = toks[2]])
             ELSE Scan(Tail(toks), [acc EXCEPT !.rev = "None"])
    ELSE Scan(Tail(toks), [acc EXCEPT !.pos = Append(acc.pos, Head(toks))])

\* add_parser: the first positional is url, the others are targets
parse_args(toks) ==
    LET a == Scan(toks, ParserDefaults)
    IN IF a.pos = <<>>
         THEN [url |-> "", targets |-> <<>>, rev |-> a.rev,
               recursive |-> a.recursive, ok |-> FALSE]
         ELSE [url |-> Head(a.pos), targets |-> Tail(a.pos), rev |-> a.rev,
               recursive |-> a.recursive, ok |-> TRUE]

\* what Repo.list_outs may do
ListOutcomes == {"ok", "DvcException", "OtherError"}

\* a CmdList.run without its except clause
CaughtByRun_Nothing(r) == FALSE

\* CmdList.run: `except DvcException`
CaughtByRun(r) == r = "DvcException"

\* CmdList.run: the value returned
RunReturn(r) == IF r = "ok" THEN 0 ELSE IF CaughtByRun(r) THEN 1 ELSE None

\* run_stage is not running
StageIdle ==
    /\ dry = FALSE
    /\ force = FALSE
    /\ checkpoint_func = FALSE
    /\ main_thread = TRUE
    /\ stage_cmd = [list |-> FALSE, items |-> StageCmd(1)]
    /\ childWaits = FALSE
    /\ sigint0 = "custom"
    /\ pc = "off"
    /\ idx = 0
    /\ exc = "none"
    /\ outcome = "none"
    /\ errCmd = 0
    /\ errCode = None
    /\ old_handler = NoHandler
    /\ p = 0
    /\ sigint = sigint0
    /\ lock = "none"
    /\ marker = FALSE
    /\ proc = [k \in 1..MaxCmds |-> NoProc]
    /\ mpc = "none"
    /\ killed = FALSE
    /\ done = FALSE
    /\ restoreResult = "none"
    /\ restoreCalls = 0
    /\ displayed = <<>>
    /\ spawned = <<>>
    /\ launches = 0
    /\ monitors = 0
    /\ created = 0
    /\ attempts = 0
    /\ cbCalls = 0
    /\ cbRaised = FALSE
    /\ markerStart = FALSE
    /\ kind = "none"

InitList ==
    /\ StageIdle
    /\ ApplyIdle
    /\ cli \in CommandLines
    /\ argv = MakeArgv(cli)
    /\ args = [url |-> "", targets |-> <<>>, rev |-> "None", recursive |-> FALSE]
    /\ lpc = "cli"
    /\ list_calls = <<>>
    /\ list_result = "none"
    /\ ret = None

\* test_list, lines 6-9: the command line is parsed and CmdList is built
ParseCli ==
    /\ lpc = "cli"
    /\ LET a == parse_args(argv)
       IN IF a.ok
            THEN /\ args' = [url |-> a.url, targets |-> a.targets,
                             rev |-> a.rev, recursive |-> a.recursive]
                 /\ lpc' = "run"
            ELSE /\ args' = args
                 /\ lpc' = "usage"
    /\ UNCHANGED <<app, inputs, fg, shared, proc, mon, hist, cli, argv, list_calls,
                   list_result, ret>>

\* CmdList.run, lines 13-26
CmdListRun ==
    /\ lpc = "run"
    /\ list_calls' = Append(list_calls,
           [url |-> args.url, targets |-> args.targets, rev |-> args.rev,
            recursive |-> args.recursive])
    /\ \E r \in ListOutcomes :
        /\ list_result' = r
        /\ ret' = RunReturn(r)
        /\ lpc' = IF r = "ok" \/ CaughtByRun(r) THEN "done" ELSE "raised"
    /\ UNCHANGED <<app, inputs, fg, shared, proc, mon, hist, cli, argv, args>>

NextList ==
    \/ ParseCli
    \/ CmdListRun

SpecList == InitList /\ [][NextList]_vars


\* ------------------------------------------------------ experiments apply
\* the revisions apply can be given: an experiment branch, a stashed
\* experiment, a revision that is no experiment
Revs_apply == {"exp_branch", "exp_stash", "unknown"}

\* the stash stacks the user can have before apply, newest entry first
StashStacks == {<<>>, <<"older">>}

\* the entry stash.push makes for the dirty workspace
WorkspaceEntry == "workspace"

\* a sequence's elements
Range(q) == {q[i] : i \in DOMAIN q}

InitApply ==
    /\ StageIdle
    /\ ListIdle
    /\ rev \in Revs_apply
    /\ apply_force \in BOOLEAN
    /\ is_dirty \in BOOLEAN
    /\ stash0 \in StashStacks
    /\ stash = stash0
    /\ workspace = "None"
    /\ tree = IF is_dirty THEN "user" ELSE "clean"
    /\ exec_apply \in {"unset", "earlier_rev"}
    /\ packed_args \in BOOLEAN
    /\ apos = "resolve"
    /\ apply_exc = "none"

\* an exception leaves apply
Raise(e) == apos' = "raised" /\ apply_exc' = e

\* apply, lines 29-37: the revision must be an experiment of this baseline
ResolveRev ==
    /\ apos = "resolve"
    /\ IF rev = "unknown"
         THEN Raise("InvalidExpRevError")
         ELSE apos' = "dirty" /\ apply_exc' = apply_exc
    /\ UNCHANGED <<rev, apply_force, is_dirty, stash0, stash, workspace, tree,
                   exec_apply, packed_args>>
    /\ UNCHANGED <<inputs, fg, shared, proc, mon, hist, lst>>

\* apply, lines 41-45: a dirty workspace is pushed onto the stash stack
StashWorkspace ==
    /\ apos = "dirty"
    /\ IF is_dirty
         THEN /\ stash' = <<WorkspaceEntry>> \o stash
              /\ workspace' = WorkspaceEntry
              /\ tree' = "clean"
         ELSE /\ workspace' = "None"
              /\ UNCHANGED <<stash, tree>>
    /\ apos' = "merge"
    /\ UNCHANGED <<rev, apply_force, is_dirty, stash0, exec_apply, packed_args,
                   apply_exc>>
    /\ UNCHANGED <<inputs, fg, shared, proc, mon, hist, lst>>

\* apply, line 47: git merge --squash --no-commit, outside any try
SquashMerge ==
    /\ apos = "merge"
    /\ \/ /\ tree' = "exp"
          /\ apos' = IF workspace # "None" THEN "unstash" ELSE "reset"
          /\ apply_exc' = apply_exc
       \/ /\ tree' = tree
          /\ Raise("GitCommandError")
    /\ UNCHANGED <<rev, apply_force, is_dirty, stash0, stash, workspace,
                   exec_apply, packed_args>>
    /\ UNCHANGED <<inputs, fg, shared, proc, mon, hist, lst>>

\* apply, lines 49-61: the stashed workspace is applied over the experiment;
\* on a conflict force keeps the experiment's side, otherwise the workspace
\* is reset and the stash popped
StashApply ==
    /\ apos = "unstash"
    /\ \/ /\ tree' = "exp+user"
          /\ apos' = "drop"
          /\ UNCHANGED <<stash, apply_exc>>
       \/ /\ apply_force
          /\ tree' = "exp"
          /\ apos' = "drop"
          /\ UNCHANGED <<stash, apply_exc>>
       \/ /\ ~apply_force
          /\ tree' = "user"
          /\ stash' = Tail(stash)
          /\ Raise("ApplyConflictError")
    /\ UNCHANGED <<rev, apply_force, is_dirty, stash0, workspace, exec_apply,
                   packed_args>>
    /\ UNCHANGED <<inputs, fg, shared, proc, mon, hist, lst>>

\* apply, line 62: stash.drop() drops the newest entry
StashDrop ==
    /\ apos = "drop"
    /\ stash' = Tail(stash)
    /\ apos' = "reset"
    /\ UNCHANGED <<rev, apply_force, is_dirty, stash0, workspace, tree,
                   exec_apply, packed_args, apply_exc>>
    /\ UNCHANGED <<inputs, fg, shared, proc, mon, hist, lst>>

\* apply, lines 63-68: git reset; the packed arguments of a stashed
\* experiment are removed
GitReset ==
    /\ apos = "reset"
    /\ \/ /\ packed_args' = IF rev = "exp_stash" THEN FALSE ELSE packed_args
          /\ apos' = "checkout"
          /\ apply_exc' = apply_exc
       \/ /\ packed_args' = packed_args
          /\ Raise("GitCommandError")
    /\ UNCHANGED <<rev, apply_force, is_dirty, stash0, stash, workspace, tree,
                   exec_apply>>
    /\ UNCHANGED <<inputs, fg, shared, proc, mon, hist, lst>>

\* apply, line 70: dvc_checkout
DvcCheckout ==
    /\ apos = "checkout"
    /\ \/ apos' = "set_ref" /\ apply_exc' = apply_exc
       \/ Raise("CheckoutError")
    /\ UNCHANGED <<rev, apply_force, is_dirty, stash0, stash, workspace, tree,
                   exec_apply, packed_args>>
    /\ UNCHANGED <<inputs, fg, shared, proc, mon, hist, lst>>

\* apply, lines 72-77: EXEC_APPLY is set to the experiment's revision
SetRef ==
    /\ apos = "set_ref"
    /\ exec_apply' = "exp_rev"
    /\ apos' = "returned"
    /\ UNCHANGED <<rev, apply_force, is_dirty, stash0, stash, workspace, tree,
                   packed_args, apply_exc>>
    /\ UNCHANGED <<inputs, fg, shared, proc, mon, hist, lst>>

NextApply ==
    \/ ResolveRev
    \/ StashWorkspace
    \/ SquashMerge
    \/ StashApply
    \/ StashDrop
    \/ GitReset
    \/ DvcCheckout
    \/ SetRef

SpecApply == InitApply /\ [][NextApply]_vars

\* ================================================================ claims
\* the current run attempt has passed lines 106-110 of _run
Decided == kind # "none"

\* positions of the foreground inside cmd_run (wrapped by unlocked_repo)
InCmdRun ==
    pc \in {"display", "popen", "signal", "monitor", "communicate", "stop",
            "join", "finally", "evaluate", "next", "leave"}

\* positions of the foreground outside lines 94-104 of _run
OutsideTry ==
    pc \in {"run_stage", "cmd_run", "display", "popen", "evaluate", "next",
            "leave", "done"}

Running == {k \in 1..MaxCmds : proc[k].state = "running"}

\* C1: when the outcome of a checkpoint run attempt is decided with the killed
\* flag set, the outcome is CheckpointKilledError carrying the observed exit
\* code, whatever that code is.
C1_KilledIsCheckpointKilled ==
    (Decided /\ killed) =>
        /\ kind = "CheckpointKilledError"
        /\ outcome = "CheckpointKilledError"
        /\ errCode = proc[p].returncode

\* C2: after a run-cache hit, restore has been called exactly once, no child
\* was launched, no monitor was started and run_stage has returned normally.
C2_CacheHit ==
    restoreResult = "hit" =>
        /\ ~dry /\ ~force /\ ~checkpoint_func
        /\ restoreCalls = 1
        /\ launches = 0 /\ spawned = <<>> /\ Running = {}
        /\ monitors = 0 /\ mpc = "none"
        /\ pc = "done" /\ outcome = "Success" /\ exc = "none"

C2_Witness == restoreResult = "hit" /\ pc = "done" /\ Len(commands) = MaxCmds

\* C3: a dry run launches nothing, does not consult the run cache, starts no
\* monitor, leaves the SIGINT disposition alone, displays the commands in
\* declared order and ends with Success.
C3_DryRun ==
    dry =>
        /\ launches = 0 /\ spawned = <<>> /\ Running = {}
        /\ restoreCalls = 0
        /\ monitors = 0 /\ mpc = "none"
        /\ sigint = sigint0 /\ old_handler = NoHandler
        /\ Len(displayed) <= Len(commands)
        /\ displayed = SubSeq(commands, 1, Len(displayed))
        /\ exc = "none"
        /\ pc = "done" => (outcome = "Success" /\ displayed = commands)

C3_Witness ==
    /\ dry /\ force /\ checkpoint_func
    /\ pc = "done" /\ Len(displayed) = MaxCmds

\* C4: without a checkpoint callback the commands are launched one at a
\* time in declared order, each only after its predecessor was seen to exit
\* with 0; a command seen to exit non-zero is the last one launched and the
\* StageCmdFailedError carries it and its exit code; when every command
\* was seen to exit with 0 the outcome is Success.
C4_InOrderUntilFailure ==
    (~dry /\ ~checkpoint_func) =>
        /\ Len(spawned) <= Len(commands)
        /\ spawned = SubSeq(commands, 1, Len(spawned))
        /\ Cardinality(Running) <= 1
        /\ launches <= Len(displayed)
        /\ \A k \in 1..MaxCmds : proc[k].state = "none" <=> k > Len(spawned)
        /\ \A k \in 2..Len(spawned) :
              proc[k - 1].state = "exited" /\ proc[k - 1].returncode = 0
        /\ \A k \in 1..Len(spawned) :
              proc[k].returncode \notin {0, None} =>
                 /\ Len(spawned) = k
                 /\ proc[k].returncode = proc[k].code
                 /\ pc = "done" =>
                       /\ outcome = "StageCmdFailedError"
                       /\ errCmd = commands[k]
                       /\ errCode = proc[k].code
        /\ outcome \in {"StageCmdFailedError", "CheckpointKilledError"} =>
              /\ outcome = "StageCmdFailedError"
              /\ errCmd = commands[Len(spawned)]
              /\ errCode = proc[Len(spawned)].code /\ errCode # 0
        /\ (pc = "done" /\ \A k \in 1..Len(commands) : proc[k].returncode = 0)
              => outcome = "Success"

C4_Witness ==
    /\ ~dry /\ ~checkpoint_func
    /\ pc = "done"
    /\ Len(spawned) = MaxCmds
    /\ outcome = "StageCmdFailedError"
    /\ errCmd = commands[MaxCmds] /\ errCode = 3

\* C5: in the main thread, whatever the SIGINT disposition was before _run,
\* it is the disposition again once _run has left its try statement.
C5_SigintRestored ==
    (main_thread /\ OutsideTry) => sigint = sigint0

\* C6, as stated: when the callback never raises and the child creates the
\* marker N times (N = 1, 2) and exits 0, the callback is invoked N times, the
\* marker is absent at the end and the outcome is Success.
C6_CallbackPerMarker ==
    (/\ checkpoint_func /\ Decided /\ ~cbRaised
     /\ created \in {1, 2}
     /\ proc[p].state = "exited" /\ proc[p].code = 0) =>
        /\ cbCalls = created
        /\ ~marker
        /\ kind = "Success"

\* C6, amended: the same, for a child that starts with the marker absent and
\* after each creation waits until the marker has been removed.
C6_CallbackPerMarkerWaiting ==
    (/\ checkpoint_func /\ Decided /\ ~cbRaised
     /\ childWaits /\ ~markerStart
     /\ created \in {1, 2}
     /\ proc[p].state = "exited" /\ proc[p].code = 0) =>
        /\ cbCalls = created
        /\ ~marker
        /\ kind = "Success"

C6_Witness ==
    /\ checkpoint_func /\ Decided /\ ~cbRaised
    /\ childWaits /\ ~markerStart
    /\ created = 2 /\ cbCalls = 2
    /\ proc[p].state = "exited" /\ proc[p].code = 0
    /\ pc = "done" /\ outcome = "Success"

\* C7: after RunCacheNotFoundError the commands are run; any other error of
\* restore is the outcome of run_stage, and nothing is displayed, launched
\* or monitored.
C7_RestoreErrors ==
    /\ restoreResult = "RunCacheNotFoundError" =>
          /\ pc # "run_stage"
          /\ pc = "done" => (launches >= 1 /\ Len(displayed) >= 1)
    /\ restoreResult = "OtherError" =>
          /\ pc = "done" /\ outcome = "OtherError"
          /\ displayed = <<>> /\ launches = 0 /\ spawned = <<>>
          /\ monitors = 0 /\ mpc = "none"

C7_Witness == restoreResult = "OtherError" /\ pc = "done"

\* C8: restore is called if and only if dry, force and the checkpoint
\* callback are all unset, and then before anything is displayed or launched;
\* a forced run and a checkpoint run that are not dry launch their commands
\* without calling restore.
C8_RestoreIffPlainRun ==
    /\ restoreCalls <= 1
    /\ pc # "run_stage" =>
          (restoreCalls = 1 <=> (~dry /\ ~force /\ ~checkpoint_func))
    /\ pc = "run_stage" => (displayed = <<>> /\ launches = 0)
    /\ (pc = "done" /\ ~dry /\ (force \/ checkpoint_func)) =>
          (restoreCalls = 0 /\ launches >= 1)

C8_Witness ==
    /\ pc = "done" /\ ~dry /\ ~force /\ checkpoint_func
    /\ restoreCalls = 0 /\ Len(spawned) >= 1

\* C9, as stated: in a non-dry run the lock is not held while a child is
\* running, except by the monitor inside _run_callback; it is released before
\* the first launch and the caller holds it again after cmd_run.
C9_LockFreeWhileChildRuns ==
    ~dry =>
        /\ Running # {} => (lock = "none" \/ (lock = "monitor" /\ mpc = "callback"))
        /\ lock = "monitor" <=> mpc = "callback"
        /\ pc = "popen" => lock = "none"
        /\ pc = "done" => lock = "caller"

\* C9, amended: in a non-dry run the lock is not held from the entry of
\* cmd_run to its exit, except by the monitor inside _run_callback; the
\* caller holds it before and after, also when a child outlives cmd_run.
C9_LockFreeDuringCmdRun ==
    ~dry =>
        /\ InCmdRun => (lock = "none" \/ (lock = "monitor" /\ mpc = "callback"))
        /\ lock = "monitor" <=> mpc = "callback"
        /\ pc = "popen" => lock = "none"
        /\ pc \in {"run_stage", "cmd_run", "done"} => lock = "caller"

C9_Witness ==
    /\ ~dry /\ pc = "communicate"
    /\ Running # {} /\ lock = "monitor" /\ mpc = "callback"

\* C10: CmdList.run calls Repo.list_outs once, with the url, the targets
\* ([] when none), rev (None when absent) and recursive (False without -R),
\* and returns 0 when the call returns, 1 when it raises DvcException.
C10_ListRun ==
    /\ lpc \in {"cli", "run"} => list_calls = <<>>
    /\ lpc \notin {"cli", "run", "off"} =>
          /\ list_calls =
               <<[url |-> cli.url, targets |-> cli.targets,
                  rev |-> IF cli.rev = "absent" THEN "None" ELSE cli.rev,
                  recursive |-> cli.recursive]>>
          /\ list_result = "ok" => (ret = 0 /\ lpc = "done")
          /\ list_result = "DvcException" => (ret = 1 /\ lpc = "done")

C10_Witness ==
    /\ lpc = "done" /\ list_result = "DvcException" /\ ret = 1
    /\ cli = [url |-> "repo_url", targets |-> <<>>, rev |-> "absent",
              recursive |-> FALSE]
    /\ list_calls = <<[url |-> "repo_url", targets |-> <<>>, rev |-> "None",
                       recursive |-> FALSE]>>

\* the monitor thread is running
MonitorAlive == mpc \notin {"none", "returned", "dead"}

\* the monitor is between seeing the marker and the end of its finally clause
Handling == mpc \in {"lock", "callback", "kill", "set_killed", "remove", "unwind"}

\* C11: the monitor thread runs only while the foreground is inside the
\* with statement of _run; when the foreground has left it (to decide the
\* outcome, or with an exception) done is set and the thread has ended.
C11_JoinedBeforeDecision ==
    checkpoint_func =>
        /\ MonitorAlive => pc \in {"communicate", "stop", "join"}
        /\ pc = "join" => done
        /\ (pc \in {"finally", "evaluate", "next", "leave", "done"} /\ mpc # "none")
              => (done /\ mpc \in {"returned", "dead"})

C11_Witness ==
    /\ checkpoint_func /\ pc = "evaluate"
    /\ killed /\ mpc = "returned" /\ done
    /\ proc[p].returncode = SIGTERM_CODE

\* C12: the marker stays in place from the moment the monitor has seen it
\* until the callback attempt is over, and is removed before the next poll:
\* a run attempt makes at most one callback attempt per creation of the
\* marker (and one for a marker present at the launch).
C12_OneAttemptPerMarker ==
    checkpoint_func =>
        /\ Handling => marker
        /\ attempts <= created + (IF markerStart THEN 1 ELSE 0)
        /\ cbCalls <= attempts
        /\ mpc = "callback" <=> lock = "monitor"

C12_Witness ==
    /\ checkpoint_func /\ ~markerStart
    /\ created = 2 /\ attempts = 2 /\ cbCalls = 1
    /\ cbRaised /\ killed /\ ~marker /\ mpc = "wait"

\* C13: once a callback attempt has raised, the monitor terminates the child
\* and waits for it, then sets killed, then removes the marker, and goes on
\* polling until done is set.
C13_KillProtocol ==
    checkpoint_func =>
        /\ cbRaised => (mpc \in {"kill", "set_killed"} \/ killed)
        /\ mpc = "set_killed" =>
              /\ proc[p].state = "exited" /\ proc[p].returncode # None
              /\ ~killed /\ marker
        /\ killed => (proc[p].state = "exited" /\ proc[p].returncode # None)
        /\ mpc \notin {"unwind", "dead"}
        /\ mpc = "returned" => done

\* C14: the child is terminated, and killed is set, only after a callback
\* attempt of the same run attempt has raised.
C14_KillOnlyAfterRaise ==
    /\ (killed \/ mpc \in {"kill", "set_killed", "unwind"}) => cbRaised
    /\ \A k \in 1..MaxCmds :
          proc[k].code = SIGTERM_CODE => (k = p /\ cbRaised /\ checkpoint_func)

C14_Witness ==
    /\ checkpoint_func /\ Decided
    /\ cbCalls >= 1 /\ ~cbRaised /\ ~killed
    /\ proc[p].code = 3 /\ kind = "StageCmdFailedError"

\* C15: no exception ends the monitor thread: it leaves its loop only by
\* returning, after done has been set.
C15_NoEscape ==
    /\ mpc \notin {"unwind", "dead"}
    /\ mpc = "returned" => done

\* C16: a monitor is started for every launched command of a checkpoint
\* stage and for none of any other stage; without a callback the marker is
\* never removed, no callback runs, no child is terminated and the exit
\* code alone decides the outcome.
C16_MonitorIffCheckpoint ==
    /\ (checkpoint_func /\ pc \notin {"signal", "monitor"}) =>
          monitors = Len(spawned)
    /\ ~checkpoint_func =>
          /\ monitors = 0 /\ mpc = "none"
          /\ attempts = 0 /\ cbCalls = 0 /\ ~cbRaised /\ ~killed
          /\ (markerStart \/ created > 0) => marker
          /\ \A k \in 1..MaxCmds : proc[k].code # SIGTERM_CODE
          /\ Decided =>
                kind = IF proc[p].returncode = 0 THEN "Success"
                       ELSE "StageCmdFailedError"

C16_Witness ==
    /\ ~checkpoint_func /\ ~dry /\ pc = "done"
    /\ created > 0 /\ marker
    /\ kind = "StageCmdFailedError" /\ proc[p].returncode = 3

\* C18: outside the main thread the SIGINT disposition is never changed; it
\* is changed only in the main thread, and only after a successful launch.
C18_SigintOnlyInMainThread ==
    /\ ~main_thread => (sigint = sigint0 /\ old_handler = NoHandler)
    /\ old_handler # NoHandler =>
          (main_thread /\ p > 0 /\ proc[p].state # "none")
    /\ sigint # sigint0 => (main_thread /\ Len(spawned) >= 1)
    /\ exc = "LaunchError" => old_handler = NoHandler

C18_Witness ==
    /\ ~main_thread /\ pc = "done"
    /\ Len(spawned) >= 1 /\ sigint0 = "SIG_DFL" /\ sigint = "SIG_DFL"

\* the steps of the thread that called run_stage
FgStep ==
    \/ Restore \/ SkipRestore \/ EnterCmdRun \/ DisplayCommand \/ Popen
    \/ IgnoreSigint \/ StartMonitor \/ Communicate \/ CommunicateRaises
    \/ StopMonitor \/ Join \/ Finally \/ Evaluate \/ NextCommand \/ LeaveCmdRun

\* the steps of the monitor thread; the callback it calls terminates
MonStep ==
    \/ MonCheck \/ MonLock \/ MonCallback \/ MonKill \/ MonSetKilled
    \/ MonRemove \/ MonWait

\* both threads are scheduled fairly; nothing is assumed of the child
SpecFair == Init /\ [][Next]_vars /\ WF_vars(FgStep) /\ WF_vars(MonStep)

\* C17: once the foreground has set done and waits in join, the monitor
\* thread ends and the run attempt reaches its outcome (a decision, or the
\* exception of the wait leaving cmd_run); a monitor that finds done set at
\* the end of a tick returns, a monitor that has returned starts no callback,
\* and a decided outcome is not replaced.
C17_StopEndsMonitor ==
    /\ (checkpoint_func /\ pc = "join")
          ~> (pc \in {"next", "leave", "done"} /\ ~MonitorAlive /\ (Decided \/ exc # "none"))
    /\ [][(mpc = "wait" /\ done /\ mpc' # mpc) => mpc' = "returned"]_vars
    /\ [][(mpc = "returned" /\ mpc' = mpc) =>
             (attempts' \in {attempts, 0} /\ cbCalls' \in {cbCalls, 0})]_vars
    /\ [][(Decided /\ kind' # kind) => kind' = "none"]_vars

C17_Witness ==
    /\ checkpoint_func /\ pc = "done" /\ mpc = "returned" /\ done
    /\ cbCalls >= 1 /\ ~cbRaised /\ kind = "Success"

\* apply has returned or raised
ApplyEnded == apos \in {"returned", "raised"}

\* C19: when apply has ended after pushing the dirty workspace, the entry
\* it pushed is no longer on the stash stack, which is as it was before,
\* and the workspace holds the user's changes (or, after a forced conflict,
\* the experiment's side); EXEC_APPLY is the experiment's revision only
\* when apply has returned.
C19_StashNotLeft ==
    /\ (ApplyEnded /\ workspace # "None") =>
          /\ WorkspaceEntry \notin Range(stash)
          /\ stash = stash0
          /\ tree \in {"exp+user", "user", "exp"}
    /\ exec_apply = "exp_rev" => apos = "returned"
====
